---- MODULE Spec2Model ----
(***************************************************************************)
(* Model of the OptimumK -> SolidWorks bridge:                             *)
(*   optimumSheetParser.py  OptimumSheetParser (_find_blocks, _parse_sheet,*)
(*                          _parse_points_block, _parse_wheels_block,      *)
(*                          parse_reference_distance)                      *)
(*   step_cadder.py         carAssembly (_draw_point, _draw_suspension,    *)
(*                          _cylinder_between, _draw_wishbones,            *)
(*                          _draw_wheels, draw)                            *)
(* Three specifications share the module: SpecSheet (sheet extraction),    *)
(* SpecRef (reference distance extraction) and SpecDraw (scene assembly).  *)
(***************************************************************************)
EXTENDS Integers, Sequences, FiniteSets, TLC

VARIABLES
  \* ---- _parse_sheet / _find_blocks / _parse_points_block ----
  rows,           \* the sheet's grid: list(sheet.iter_rows(values_only=True))
  idx,            \* _find_blocks: loop index over rows
  current_block,  \* _find_blocks: the open block, or None
  blocks,         \* _find_blocks: the blocks found so far
  bi,             \* _parse_sheet: index of the block being parsed
  parsed,         \* _parse_sheet: block name -> parsed block
  cols,           \* _parse_points_block: resolved column layout
  ri,             \* _parse_points_block: index of the data row being read
  points,         \* _parse_points_block: the points dictionary being built
  loc,            \* _parse_points_block: locals of the last loop iteration
  \* ---- parse_reference_distance / save_reference_distance ----
  workbook,       \* self.workbook: the sheets, in sheetnames order
  refPass,        \* which of the two scans is running: "setup" or "all"
  refSi,          \* index into the sheet names the running scan goes over
  refRi,          \* index of the row being scanned
  refResult,      \* the returned {"Reference distance": val}
  setupFile,      \* Vehicle_Setup.json as written by save_reference_distance
  \* ---- carAssembly.draw and the passes it calls ----
  front_suspension, \* self.front_suspension (Front_Suspension.json)
  rear_suspension,  \* self.rear_suspension (Rear_Suspension.json)
  setup,            \* the setup record passed to draw (Vehicle_Setup.json)
  cur,              \* which suspension is being drawn: "front" or "rear"
  assy,             \* the cq.Assembly being filled: its nodes, in add order
  gi,               \* _draw_suspension: index of the group being traversed
  pi,               \* _draw_suspension: index of the entry within the group
  wi,               \* _draw_wheels: index of the side, 0 left and 1 right
  wheelArgs,        \* _draw_wheels: the nine parameters read for the side
  tire,             \* _draw_wheels: the tire solid under construction
  li,               \* _draw_wishbones: index of the catalog link
  vis,              \* _draw_wishbones: the nodes of Wishbones_VIS
  front_assy,       \* draw: the finished front assembly
  main_assy,        \* draw: the returned "Car Assembly"
  pc,             \* position in the running operation
  err             \* the exception that ended the operation, "" when none

sheetVars == <<rows, idx, current_block, blocks, bi, parsed, cols, ri, points, loc>>
refVars == <<workbook, refPass, refSi, refRi, refResult, setupFile>>
drawVars == <<front_suspension, rear_suspension, setup, cur, assy, gi, pi, wi, wheelArgs,
              tire, li, vis, front_assy, main_assy>>

-----------------------------------------------------------------------------
(* Cell values.  openpyxl hands out None, int/float, str, bool and datetime *)
(* values; every cell is a record of the same shape so that cells compare.  *)

NoneCell == [t |-> "none", n |-> 0, s |-> ""]
Num(k)   == [t |-> "num",  n |-> k, s |-> ""]
Str(x)   == [t |-> "str",  n |-> 0, s |-> x]
Bool(b)  == [t |-> "bool", n |-> (IF b THEN 1 ELSE 0), s |-> ""]
DateCell == [t |-> "date", n |-> 0, s |-> ""]

\* Python truthiness of a cell value (`if first`, `if name`).
Truthy(c) ==
  CASE c.t = "none" -> FALSE
    [] c.t = "num"  -> c.n # 0
    [] c.t = "bool" -> c.n = 1
    [] c.t = "str"  -> c.s # ""
    [] OTHER        -> TRUE

\* isinstance(c, (int, float)); bool is a subclass of int.
IsIntOrFloat(c) == c.t \in {"num", "bool"}

\* isinstance(c, str)
IsStr(c) == c.t = "str"

RECURSIVE LStrip(_)
LStrip(s) ==
  IF s = "" THEN ""
  ELSE IF SubSeq(s, 1, 1) = " " THEN LStrip(SubSeq(s, 2, Len(s))) ELSE s

RECURSIVE RStrip(_)
RStrip(s) ==
  IF s = "" THEN ""
  ELSE IF SubSeq(s, Len(s), Len(s)) = " " THEN RStrip(SubSeq(s, 1, Len(s) - 1)) ELSE s

\* str.strip()
Strip(s) == RStrip(LStrip(s))

LowerChar(c) ==
  CASE c = "A" -> "a" [] c = "B" -> "b" [] c = "C" -> "c" [] c = "D" -> "d"
    [] c = "E" -> "e" [] c = "F" -> "f" [] c = "G" -> "g" [] c = "H" -> "h"
    [] c = "I" -> "i" [] c = "J" -> "j" [] c = "K" -> "k" [] c = "L" -> "l"
    [] c = "M" -> "m" [] c = "N" -> "n" [] c = "O" -> "o" [] c = "P" -> "p"
    [] c = "Q" -> "q" [] c = "R" -> "r" [] c = "S" -> "s" [] c = "T" -> "t"
    [] c = "U" -> "u" [] c = "V" -> "v" [] c = "W" -> "w" [] c = "X" -> "x"
    [] c = "Y" -> "y" [] c = "Z" -> "z" [] OTHER -> c

\* str.lower()
RECURSIVE Lower(_)
Lower(s) ==
  IF s = "" THEN "" ELSE LowerChar(SubSeq(s, 1, 1)) \o Lower(SubSeq(s, 2, Len(s)))

\* str.startswith(p)
StartsWith(s, p) == Len(s) >= Len(p) /\ SubSeq(s, 1, Len(p)) = p

\* `sub in s` for strings
Contains(sub, s) ==
  \E i \in 1..(Len(s) - Len(sub) + 1) : SubSeq(s, i, i + Len(sub) - 1) = sub

\* str(v) of a cell value
PyStr(c) ==
  CASE c.t = "none" -> "None"
    [] c.t = "num"  -> ToString(c.n)
    [] c.t = "bool" -> (IF c.n = 1 THEN "True" ELSE "False")
    [] c.t = "str"  -> c.s
    [] OTHER        -> "2024-01-01 00:00:00"

IsDigit(c) == c \in {"0", "1", "2", "3", "4", "5", "6", "7", "8", "9"}

DigitVal(c) ==
  CASE c = "0" -> 0 [] c = "1" -> 1 [] c = "2" -> 2 [] c = "3" -> 3 [] c = "4" -> 4
    [] c = "5" -> 5 [] c = "6" -> 6 [] c = "7" -> 7 [] c = "8" -> 8 [] OTHER -> 9

AllDigits(s) == s # "" /\ \A i \in 1..Len(s) : IsDigit(SubSeq(s, i, i))

RECURSIVE DigitsVal(_)
DigitsVal(s) ==
  IF s = "" THEN 0
  ELSE 10 * DigitsVal(SubSeq(s, 1, Len(s) - 1)) + DigitVal(SubSeq(s, Len(s), Len(s)))

\* float(s) of a string: surrounding blanks are dropped, an optional sign, then
\* digits.  NoneCell stands for the ValueError.
FloatOfStr(s) ==
  LET u == Strip(s)
      signed == u # "" /\ SubSeq(u, 1, 1) \in {"-", "+"}
      body == IF signed THEN SubSeq(u, 2, Len(u)) ELSE u
  IN IF ~AllDigits(body) THEN NoneCell
     ELSE IF signed /\ SubSeq(u, 1, 1) = "-" THEN Num(0 - DigitsVal(body))
     ELSE Num(DigitsVal(body))

\* float(v) wrapped in try/except (TypeError, ValueError): the number, or None.
TryFloat(v) ==
  CASE v.t = "num"  -> Num(v.n)
    [] v.t = "bool" -> Num(v.n)
    [] v.t = "str"  -> FloatOfStr(v.s)
    [] OTHER        -> NoneCell

\* [str(h).strip() if h is not None else "" for h in row]
HeaderOf(row) ==
  [i \in 1..Len(row) |-> IF row[i].t = "none" THEN "" ELSE Strip(PyStr(row[i]))]

\* `label in header`
InList(label, header) == \E i \in 1..Len(header) : header[i] = label

\* header.index(label), 0-based; the label is in the header
IndexOf(label, header) ==
  (CHOOSE i \in 1..Len(header) :
      header[i] = label /\ \A j \in 1..(i - 1) : header[j] # label) - 1

\* row[i] with a 0-based index
At(row, i) == row[i + 1]

\* Python dictionaries: functions on a set of string keys.
EmptyDict == [k \in {} |-> NoneCell]
Put(d, k, v) == [x \in (DOMAIN d) \cup {k} |-> IF x = k THEN v ELSE d[x]]

\* An optional column index (None or an int).
NoIdx == [ok |-> FALSE, i |-> 0]
Idx(i) == [ok |-> TRUE, i |-> i]

-----------------------------------------------------------------------------
(* _find_blocks *)

NoBlock == [set |-> FALSE, name |-> "", start |-> 0]

\* first = row[0] if len(row) > 0 else None
FirstCell(row) == IF Len(row) > 0 THEN At(row, 0) ELSE NoneCell

StartsBlockNoTypeTest(first) == Truthy(first)

\* if first and (not isinstance(first, (int, float)))
StartsBlock(first) == Truthy(first) /\ ~IsIntOrFloat(first)

\* One iteration of `for idx, row in enumerate(rows)`.
FindBlocksRow ==
  /\ pc = "find"
  /\ idx < Len(rows)
  /\ LET row == At(rows, idx)
         first == FirstCell(row)
     IN IF StartsBlock(first)
        THEN /\ blocks' = IF current_block.set
                          THEN Append(blocks,
                                 [name |-> current_block.name,
                                  rows |-> SubSeq(rows, current_block.start + 1, idx)])
                          ELSE blocks
             /\ current_block' = [set |-> TRUE, name |-> Strip(PyStr(first)), start |-> idx]
        ELSE UNCHANGED <<blocks, current_block>>
  /\ idx' = idx + 1
  /\ UNCHANGED <<rows, bi, parsed, cols, ri, points, loc, pc, err>>
  /\ UNCHANGED <<refVars, drawVars>>

\* After the loop: add the last block and return to _parse_sheet.
FindBlocksReturn ==
  /\ pc = "find"
  /\ idx = Len(rows)
  /\ blocks' = IF current_block.set
               THEN Append(blocks,
                      [name |-> current_block.name,
                       rows |-> SubSeq(rows, current_block.start + 1, Len(rows))])
               ELSE blocks
  /\ pc' = "blocks"
  /\ UNCHANGED <<rows, idx, current_block, bi, parsed, cols, ri, points, loc, err>>
  /\ UNCHANGED <<refVars, drawVars>>

-----------------------------------------------------------------------------
(* _parse_wheels_block *)

WheelsRightDefault == 6
WheelsLeftDefault == 2
NameDefault == 1

\* One iteration of `for row in block_rows[1:]`, on the params built so far.
WheelsRow(params, row, name_idx, left_idx, right_idx) ==
  IF \A i \in 1..Len(row) : row[i].t = "none" THEN params
  ELSE LET param_name == IF name_idx < Len(row) THEN At(row, name_idx) ELSE NoneCell
           left_val   == IF left_idx < Len(row) THEN At(row, left_idx) ELSE NoneCell
           right_val  == IF right_idx < Len(row) THEN At(row, right_idx) ELSE NoneCell
       IN IF Truthy(param_name) /\ IsStr(param_name)
          THEN Put(params, param_name.s, [left |-> left_val, right |-> right_val])
          ELSE params

RECURSIVE WheelsRows(_, _, _, _, _, _)
WheelsRows(params, block_rows, k, name_idx, left_idx, right_idx) ==
  IF k > Len(block_rows) THEN params
  ELSE WheelsRows(WheelsRow(params, block_rows[k], name_idx, left_idx, right_idx),
                  block_rows, k + 1, name_idx, left_idx, right_idx)

WheelsNameIdx(header) ==
  IF InList("Point Name", header) THEN IndexOf("Point Name", header) ELSE NameDefault

WheelsLeftIdx(header) ==
  IF InList("Left", header) THEN IndexOf("Left", header) ELSE WheelsLeftDefault

WheelsRightIdxSwapped(header) ==
  IF InList("Left", header) THEN IndexOf("Left", header) ELSE WheelsLeftDefault

WheelsRightIdx(header) ==
  IF InList("Right", header) THEN IndexOf("Right", header) ELSE WheelsRightDefault

_parse_wheels_block(block_rows) ==
  LET header == HeaderOf(block_rows[1])
  IN WheelsRows(EmptyDict, block_rows, 2,
                WheelsNameIdx(header), WheelsLeftIdx(header), WheelsRightIdx(header))

-----------------------------------------------------------------------------
(* _parse_points_block *)

\* has_xyz = hdr1 and ("X" in hdr1 and "Y" in hdr1 and "Z" in hdr1)
HasXyz(hdr1) ==
  Len(hdr1) > 0 /\ InList("X", hdr1) /\ InList("Y", hdr1) /\ InList("Z", hdr1)

\* find_label: the first j in range(lo, hi) with hdr1[j] == label.  hdr1[j] raises
\* IndexError when the scan passes the end of hdr1 before a match.
FindLabel(label, lo, hi, hdr1) ==
  LET hits == {j \in lo..(hi - 1) : j < Len(hdr1) /\ At(hdr1, j) = label}
  IN IF hits # {}
       THEN [raise |-> FALSE, idx |-> Idx(CHOOSE j \in hits : \A k \in hits : j <= k)]
     ELSE IF hi > lo /\ hi > Len(hdr1)
       THEN [raise |-> TRUE, idx |-> NoIdx]
     ELSE [raise |-> FALSE, idx |-> NoIdx]

\* The Y/Z fallback beside a found X: xj + d, when that column is inside the span.
Fallback(xj, found, d, hi) ==
  IF xj.ok /\ ~found.ok /\ xj.i + d < hi THEN Idx(xj.i + d) ELSE found

\* find_xyz_cols(anchor, stop_at)
find_xyz_cols(anchor, stop_at, has_xyz, hdr1) ==
  IF ~anchor.ok THEN [raise |-> FALSE, x |-> NoIdx, y |-> NoIdx, z |-> NoIdx]
  ELSE IF has_xyz
    THEN LET lo == anchor.i
             hi == IF stop_at.ok /\ stop_at.i > anchor.i THEN stop_at.i ELSE Len(hdr1)
             fx == FindLabel("X", lo, hi, hdr1)
             fy == FindLabel("Y", lo, hi, hdr1)
             fz == FindLabel("Z", lo, hi, hdr1)
         IN IF fx.raise \/ fy.raise \/ fz.raise
            THEN [raise |-> TRUE, x |-> NoIdx, y |-> NoIdx, z |-> NoIdx]
            ELSE [raise |-> FALSE, x |-> fx.idx,
                  y |-> Fallback(fx.idx, fy.idx, 1, hi),
                  z |-> Fallback(fx.idx, fz.idx, 2, hi)]
  ELSE [raise |-> FALSE, x |-> Idx(anchor.i + 1), y |-> Idx(anchor.i + 2),
        z |-> Idx(anchor.i + 3)]

NoCols == [name_idx |-> 0, has_xyz |-> FALSE, data_start |-> 0, raise |-> FALSE,
           left_anchor |-> NoIdx, right_anchor |-> NoIdx,
           lx |-> NoIdx, ly |-> NoIdx, lz |-> NoIdx,
           rx |-> NoIdx, ry |-> NoIdx, rz |-> NoIdx]

\* data_start = 2 if has_xyz else 1
DataStart(has_xyz) == IF has_xyz THEN 2 ELSE 1

\* Lines 44-92: the column layout of a points block.
PointsLayout(block_rows) ==
  LET hdr0 == HeaderOf(block_rows[1])
      hdr1 == IF Len(block_rows) > 1 THEN HeaderOf(block_rows[2]) ELSE <<>>
      has_xyz == HasXyz(hdr1)
      left_anchor == IF InList("Left", hdr0) THEN Idx(IndexOf("Left", hdr0)) ELSE NoIdx
      right_anchor == IF InList("Right", hdr0) THEN Idx(IndexOf("Right", hdr0)) ELSE NoIdx
      l == find_xyz_cols(left_anchor, right_anchor, has_xyz, hdr1)
      r == find_xyz_cols(right_anchor, NoIdx, has_xyz, hdr1)
  IN [name_idx |-> IF InList("Point Name", hdr0) THEN IndexOf("Point Name", hdr0)
                   ELSE NameDefault,
      has_xyz |-> has_xyz,
      data_start |-> DataStart(has_xyz),
      raise |-> l.raise \/ r.raise,
      left_anchor |-> left_anchor, right_anchor |-> right_anchor,
      lx |-> l.x, ly |-> l.y, lz |-> l.z,
      rx |-> r.x, ry |-> r.y, rz |-> r.z]

ReadCoordNoMirror(row, i, dflt) ==
  IF i.ok /\ i.i < Len(row) THEN TryFloat(At(row, i.i)) ELSE NoneCell

\* f(row[i]) if i is not None and i < len(row) else dflt
ReadCoord(row, i, dflt) ==
  IF i.ok /\ i.i < Len(row) THEN TryFloat(At(row, i.i)) ELSE dflt

ZeroFloat == Num(0)

OrZeroKeepNone(v) == v

\* v if v is not None else 0.0
OrZero(v) == IF v.t # "none" THEN v ELSE ZeroFloat

NoLoc == [kept |-> FALSE, row |-> <<>>, name |-> "",
          l |-> <<NoneCell, NoneCell, NoneCell>>, r |-> <<NoneCell, NoneCell, NoneCell>>]

\* The body of `for row in block_rows[data_start:]` for one row: the locals it
\* leaves behind (kept is FALSE when the row is skipped by a `continue`).
ReadRow(row, c) ==
  LET name == IF c.name_idx < Len(row) THEN At(row, c.name_idx) ELSE NoneCell
      x_l == ReadCoord(row, c.lx, NoneCell)
      y_l == ReadCoord(row, c.ly, NoneCell)
      z_l == ReadCoord(row, c.lz, NoneCell)
      x_r == ReadCoord(row, c.rx, x_l)
      y_r == ReadCoord(row, c.ry, y_l)
      z_r == ReadCoord(row, c.rz, z_l)
  IN IF (\A i \in 1..Len(row) : row[i].t = "none") \/ ~(Truthy(name) /\ IsStr(name))
     THEN [NoLoc EXCEPT !.row = row]
     ELSE [kept |-> TRUE, row |-> row, name |-> name.s,
           l |-> <<x_l, y_l, z_l>>, r |-> <<x_r, y_r, z_r>>]

\* lines 118-123: the two stored vectors
StoredVec(v) == <<OrZero(v[1]), OrZero(v[2]), OrZero(v[3])>>

-----------------------------------------------------------------------------
(* _parse_sheet *)

CurBlock == blocks[bi + 1]

\* block_name.lower().startswith("wheels") and "Point Name" in header
IsWheelsBlock(b) ==
  StartsWith(Lower(b.name), "wheels") /\ InList("Point Name", HeaderOf(b.rows[1]))

\* elif "Point Name" in header
IsPointsBlock(b) == ~IsWheelsBlock(b) /\ InList("Point Name", HeaderOf(b.rows[1]))

ParseWheelsBlock ==
  /\ pc = "blocks"
  /\ bi < Len(blocks)
  /\ IsWheelsBlock(CurBlock)
  /\ parsed' = Put(parsed, CurBlock.name,
                   [kind |-> "wheels", d |-> _parse_wheels_block(CurBlock.rows)])
  /\ bi' = bi + 1
  /\ UNCHANGED <<rows, idx, current_block, blocks, cols, ri, points, loc, pc, err>>
  /\ UNCHANGED <<refVars, drawVars>>

\* Entry of _parse_points_block: the header rows are read and the columns resolved.
PointsBlockHeader ==
  /\ pc = "blocks"
  /\ bi < Len(blocks)
  /\ IsPointsBlock(CurBlock)
  /\ LET c == PointsLayout(CurBlock.rows)
     IN /\ cols' = c
        /\ IF c.raise
           THEN /\ pc' = "error"
                /\ err' = "IndexError"
                /\ UNCHANGED ri
           ELSE /\ pc' = "points"
                /\ ri' = c.data_start
                /\ UNCHANGED err
  /\ points' = EmptyDict
  /\ loc' = NoLoc
  /\ UNCHANGED <<rows, idx, current_block, blocks, bi, parsed>>
  /\ UNCHANGED <<refVars, drawVars>>

\* One iteration of `for row in block_rows[data_start:]`.
PointsBlockRow ==
  /\ pc = "points"
  /\ ri < Len(CurBlock.rows)
  /\ LET l == ReadRow(At(CurBlock.rows, ri), cols)
     IN /\ loc' = l
        /\ points' = IF l.kept
                     THEN Put(Put(points, l.name \o "_L", StoredVec(l.l)),
                              l.name \o "_R", StoredVec(l.r))
                     ELSE points
  /\ ri' = ri + 1
  /\ UNCHANGED <<rows, idx, current_block, blocks, bi, parsed, cols, pc, err>>
  /\ UNCHANGED <<refVars, drawVars>>

\* `return points`, stored by _parse_sheet under the block's name.
PointsBlockReturn ==
  /\ pc = "points"
  /\ ri >= Len(CurBlock.rows)
  /\ parsed' = Put(parsed, CurBlock.name, [kind |-> "points", d |-> points])
  /\ bi' = bi + 1
  /\ pc' = "blocks"
  /\ UNCHANGED <<rows, idx, current_block, blocks, cols, ri, points, loc, err>>
  /\ UNCHANGED <<refVars, drawVars>>

\* A block without a "Point Name" header contributes nothing.
IgnoreBlock ==
  /\ pc = "blocks"
  /\ bi < Len(blocks)
  /\ ~IsWheelsBlock(CurBlock) /\ ~IsPointsBlock(CurBlock)
  /\ bi' = bi + 1
  /\ UNCHANGED <<rows, idx, current_block, blocks, parsed, cols, ri, points, loc, pc, err>>
  /\ UNCHANGED <<refVars, drawVars>>

\* `return parsed`
ParseSheetReturn ==
  /\ pc = "blocks"
  /\ bi = Len(blocks)
  /\ pc' = "done"
  /\ UNCHANGED <<sheetVars, err>>
  /\ UNCHANGED <<refVars, drawVars>>

-----------------------------------------------------------------------------
(* The sheets extraction is run on. *)

MaxRows == 3
MaxDataRows == 2

SeqsUpTo(S, n) == UNION {[1..k -> S] : k \in 0..n}

\* Grids that exercise block detection: rows of at most one cell.
Col0Cells ==
  {NoneCell, Str(""), Str("Susp"), Str(" Wheels "), Num(0), Num(5), Bool(TRUE), DateCell}

LabelGrids == SeqsUpTo({<<>>} \cup {<<c>> : c \in Col0Cells}, MaxRows)

\* Points blocks: a header row, an optional second header row, data rows.
Scenario2Header == <<Str("Susp"), Str("Point Name"), Str("Left"), Str("Right")>>
Scenario2Subheader ==
  <<Str(""), Str(""), Str("X"), Str("Y"), Str("Z"), Str("X"), Str("Y"), Str("Z")>>
Scenario2Row ==
  <<Str(""), Str("CHAS_UppFor"), Num(100), Num(200), Num(50), Num(100), Num(-200), Num(50)>>
Scenario2Grid == <<Scenario2Header, Scenario2Subheader, Scenario2Row>>

PointHeaders ==
  { Scenario2Header,
    <<Str("Double A-Arm"), Str("Point Name"), Str("Left"), NoneCell, NoneCell, Str("Right")>>,
    <<Str("Susp"), Str(" Point Name "), Str("Left")>>,
    <<Str("Susp"), Str("Point Name")>>,
    <<Str("Susp"), Str("Point Name"), Str("Left"), NoneCell, NoneCell, NoneCell, Str("Right")>>,
    <<Str("Susp"), Str("Right"), Str("Point Name"), Str("Left")>> }

SubHeaders ==
  { <<>>,
    <<Scenario2Subheader>>,
    <<<<NoneCell, Str("Y"), Str("X"), Str("Z")>>>>,
    <<<<NoneCell, NoneCell, Str("X"), NoneCell, NoneCell, Str("X"), Str("Y"), Str("Z")>>>> }

DataRows ==
  { Scenario2Row,
    <<NoneCell, Str("UPRI_LowPnt"), NoneCell, Str("12"), Str("abc"), DateCell, Bool(TRUE),
      Str(" -7 ")>>,
    <<NoneCell, Str("CHAS_UppFor"), Num(1), Num(2)>>,
    <<NoneCell, Str("P"), Num(1), Num(2), Num(3), Num(4)>>,
    <<NoneCell, NoneCell, NoneCell>>,
    <<NoneCell, Num(5), Num(1), Num(2), Num(3), Num(4), Num(5), Num(6)>>,
    <<NoneCell, Str(""), Num(1), Num(2), Num(3)>>,
    <<>>,
    <<Num(3), Str("ROCK_Piv"), Num(7), Num(8), Num(9), Str("x"), NoneCell, Num(11)>>,
    <<NoneCell, Str("P"), Str("x"), Str("abc"), Num(4), Num(5), NoneCell, NoneCell,
      Num(6)>> }

\* The texts of the grids above that float() accepts.
NumericTexts == {"12", " -7 "}

PointGrids ==
  {<<h>> \o sub \o d : h \in PointHeaders, sub \in SubHeaders,
                       d \in SeqsUpTo(DataRows, MaxDataRows)}

\* Wheels blocks.
Scenario1Header ==
  <<Str("Wheels Block"), Str("Point Name"), Str("Left"), Str(""), Str(""), Str(""),
    Str("Right")>>
Scenario1Row ==
  <<Str("Wheels"), Str("TireDia"), Num(18), NoneCell, NoneCell, NoneCell, Num(16)>>
Scenario1Grid == <<Scenario1Header, Scenario1Row>>
Scenario1RowNoLabel == [Scenario1Row EXCEPT ![1] = NoneCell]

WheelHeaders ==
  { Scenario1Header,
    <<Str("wheels"), Str("Point Name")>>,
    <<Str("Wheels"), Str("Name"), Str("Left")>>,
    <<Str("Front Wheels"), Str("Point Name"), Str("Right"), Str("Left")>> }

WheelRows ==
  { Scenario1Row,
    Scenario1RowNoLabel,
    <<NoneCell, Str("Half Track"), Num(600)>>,
    <<NoneCell, NoneCell, NoneCell>>,
    <<NoneCell, Num(7), Num(1), Num(2), Num(3), Num(4), Num(5), Num(6)>>,
    <<Num(2), Str("Static Camber"), Str("-1"), NoneCell, NoneCell, NoneCell, DateCell>>,
    <<>>,
    <<NoneCell, Str("TireDia"), Num(20), NoneCell, NoneCell, NoneCell, Num(21)>> }

WheelGrids == {<<h>> \o d : h \in WheelHeaders, d \in SeqsUpTo(WheelRows, MaxDataRows)}

SheetGrids == LabelGrids \cup PointGrids \cup WheelGrids

SheetStart ==
  /\ rows \in SheetGrids
  /\ idx = 0
  /\ current_block = NoBlock
  /\ blocks = <<>>
  /\ bi = 0
  /\ parsed = EmptyDict
  /\ cols = NoCols
  /\ ri = 0
  /\ points = EmptyDict
  /\ loc = NoLoc

-----------------------------------------------------------------------------
(* parse_reference_distance, save_reference_distance *)

\* isinstance(cell, str) and 'reference distance' in cell.lower()
IsRefLabel(cell) == IsStr(cell) /\ Contains("reference distance", Lower(cell.s))

\* `for i, cell in enumerate(row)` from cell i on: the value returned from
\* inside the loop, if the loop returns.
RECURSIVE ScanRowFrom(_, _)
ScanRowFrom(row, i) ==
  IF i >= Len(row) THEN [returns |-> FALSE, val |-> NoneCell]
  ELSE IF IsRefLabel(At(row, i)) /\ i + 1 < Len(row)
    THEN [returns |-> TRUE, val |-> TryFloat(At(row, i + 1))]
  ELSE ScanRowFrom(row, i + 1)

ScanRow(row) == ScanRowFrom(row, 0)

\* [sheet_name for sheet_name in self.workbook.sheetnames if 'setup' in sheet_name.lower()]
SetupSheets(wb) ==
  SelectSeq([i \in 1..Len(wb) |-> i], LAMBDA i : Contains("setup", Lower(wb[i].name)))

AllSheets(wb) == [i \in 1..Len(wb) |-> i]

\* The sheet names the running scan goes over.
RefList == IF refPass = "setup" THEN SetupSheets(workbook) ELSE AllSheets(workbook)

RefSheet == workbook[RefList[refSi + 1]]

\* One iteration of `for row in sheet.iter_rows(values_only=True)`.
RefScanRow ==
  /\ pc = "scan"
  /\ refSi < Len(RefList)
  /\ refRi < Len(RefSheet.rows)
  /\ LET r == ScanRow(At(RefSheet.rows, refRi))
     IN IF r.returns
        THEN /\ refResult' = r.val
             /\ pc' = "returned"
             /\ UNCHANGED refRi
        ELSE /\ refRi' = refRi + 1
             /\ UNCHANGED <<refResult, pc>>
  /\ UNCHANGED <<workbook, refPass, refSi, setupFile, err, sheetVars, drawVars>>

\* The rows of a sheet are exhausted: `for sheet_name in ...` takes the next one.
RefNextSheet ==
  /\ pc = "scan"
  /\ refSi < Len(RefList)
  /\ refRi = Len(RefSheet.rows)
  /\ refSi' = refSi + 1
  /\ refRi' = 0
  /\ UNCHANGED <<workbook, refPass, refResult, setupFile, pc, err, sheetVars, drawVars>>

\* The setup sheets gave no result: search all sheets.
RefSearchAllSheets ==
  /\ pc = "scan"
  /\ refPass = "setup"
  /\ refSi = Len(RefList)
  /\ refPass' = "all"
  /\ refSi' = 0
  /\ refRi' = 0
  /\ UNCHANGED <<workbook, refResult, setupFile, pc, err, sheetVars, drawVars>>

\* return {"Reference distance": None}
RefNotFound ==
  /\ pc = "scan"
  /\ refPass = "all"
  /\ refSi = Len(RefList)
  /\ refResult' = NoneCell
  /\ pc' = "returned"
  /\ UNCHANGED <<workbook, refPass, refSi, refRi, setupFile, err, sheetVars, drawVars>>

NoFile == [written |-> FALSE, has_key |-> FALSE, val |-> NoneCell]

\* save_reference_distance: json.dump(ref_dist, f) writes the number or null.
SaveReferenceDistance ==
  /\ pc = "returned"
  /\ setupFile' = [written |-> TRUE, has_key |-> TRUE, val |-> refResult]
  /\ pc' = "done"
  /\ UNCHANGED <<workbook, refPass, refSi, refRi, refResult, err, sheetVars, drawVars>>

MaxSheetRows == 2

RefRows ==
  { <<Str("Reference distance"), Num(1600)>>,
    <<Num(3), Str("Reference distance")>>,
    <<NoneCell, Str("Wheelbase / REFERENCE DISTANCE (mm)"), Str("abc"),
      Str("reference distance"), Str(" 12 ")>>,
    <<Str("Reference"), NoneCell, Str("distance")>>,
    <<Str("Reference distance:"), Num(2500), NoneCell>> }

SheetNameLists ==
  { <<"Setup">>,
    <<"Front Suspension">>,
    <<"Front Suspension", "Vehicle SETUP">>,
    <<"Setup", "Front Suspension">>,
    <<"Vehicle setup", "Setup 2">>,
    <<"Front Suspension", "Rear Suspension">> }

Workbooks ==
  UNION {
    {[i \in 1..Len(names) |-> [name |-> names[i], rows |-> tables[i]]] :
       tables \in [1..Len(names) -> SeqsUpTo(RefRows, MaxSheetRows)]} :
    names \in SheetNameLists }

RefIdle ==
  /\ workbook = <<>>
  /\ refPass = "setup"
  /\ refSi = 0
  /\ refRi = 0
  /\ refResult = NoneCell
  /\ setupFile = NoFile

SheetIdle ==
  /\ rows = <<>>
  /\ idx = 0
  /\ current_block = NoBlock
  /\ blocks = <<>>
  /\ bi = 0
  /\ parsed = EmptyDict
  /\ cols = NoCols
  /\ ri = 0
  /\ points = EmptyDict
  /\ loc = NoLoc

-----------------------------------------------------------------------------
(* The schema files read by carAssembly._load_jsons.                        *)
(* A JSON object is a list of [name, val] members in file order; a JSON     *)
(* value is a list of scalars, an object of scalars or a scalar.  Lengths   *)
(* are integers counting units of 1e-9.                                     *)

JList(items) == [k |-> "list", items |-> items, members |-> <<>>]
JObject(members) == [k |-> "dict", items |-> <<>>, members |-> members]
JScalar(c) == [k |-> "scalar", items |-> <<c>>, members |-> <<>>]

Member(name, val) == [name |-> name, val |-> val]

HasKey(members, key) == \E i \in 1..Len(members) : members[i].name = key

\* members[key]; the key is present
Lookup(members, key) ==
  members[CHOOSE i \in 1..Len(members) : members[i].name = key].val

\* suspension.get(key, {}) for a group that is an object
GetGroup(suspension, key) ==
  IF HasKey(suspension, key) THEN Lookup(suspension, key).members ELSE <<>>

Suspension == IF cur = "front" THEN front_suspension ELSE rear_suspension

-----------------------------------------------------------------------------
(* _draw_point, _draw_suspension *)

\* RGB colors, in tenths.
Red == <<10, 0, 0>>
Green == <<0, 10, 0>>
Blue == <<0, 0, 10>>
Yellow == <<10, 10, 0>>
Grey == <<6, 6, 6>>
Black == <<0, 0, 0>>

ColorByNameUpriFirst(name) ==
  IF Contains("UPRI", name) THEN Green
  ELSE IF Contains("CHAS", name) THEN Red
  ELSE IF Contains("ROCK", name) THEN Blue
  ELSE Yellow

\* lines 46-54: the marker's color when none is given
ColorByName(name) ==
  IF Contains("CHAS", name) THEN Red
  ELSE IF Contains("UPRI", name) THEN Green
  ELSE IF Contains("ROCK", name) THEN Blue
  ELSE Yellow

\* size=3.0 at the call in _draw_suspension
PointSize == 3

\* A sphere node; radii are kept in tenths (size and size * 0.3).
Sphere(name, radius10, xyz, color) ==
  [name |-> name, kind |-> "sphere", radius10 |-> radius10,
   loc |-> <<xyz[1].n, xyz[2].n, xyz[3].n>>, color |-> color]

\* _draw_point(assy, name, xyz, size): the two nodes it adds, in order
_draw_point(name, xyz, size) ==
  << Sphere(name \o "_sphere", 10 * size, xyz, ColorByName(name)),
     Sphere(name \o "_sketchpoint", 3 * size, xyz, Blue) >>

\* is_float_list(val)
is_float_list(val) ==
  /\ val.k = "list"
  /\ Len(val.items) = 3
  /\ \A i \in 1..Len(val.items) : IsIntOrFloat(val.items[i])

Group == Suspension[gi + 1]

\* One iteration of `for pt_name, coords in points.items()`.
DrawEntry ==
  /\ pc = "draw_points"
  /\ gi < Len(Suspension)
  /\ Group.val.k = "dict"
  /\ pi < Len(Group.val.members)
  /\ LET e == Group.val.members[pi + 1]
     IN assy' = IF is_float_list(e.val)
                THEN assy \o _draw_point(Group.name \o "_" \o e.name, e.val.items, PointSize)
                ELSE assy
  /\ pi' = pi + 1
  /\ UNCHANGED <<front_suspension, rear_suspension, setup, cur, gi, wi, wheelArgs, tire, li,
                 vis, front_assy, main_assy, pc, err, sheetVars, refVars>>

\* `for group, points in suspension.items()` takes the next group: the entries
\* of this one are exhausted, or it is no object.
DrawNextGroup ==
  /\ pc = "draw_points"
  /\ gi < Len(Suspension)
  /\ Group.val.k # "dict" \/ pi = Len(Group.val.members)
  /\ gi' = gi + 1
  /\ pi' = 0
  /\ UNCHANGED <<front_suspension, rear_suspension, setup, cur, assy, wi, wheelArgs, tire, li,
                 vis, front_assy, main_assy, pc, err, sheetVars, refVars>>

\* carAssembly._draw_wheels(suspension.get("Wheels", {}), assy)
DrawPointsDone ==
  /\ pc = "draw_points"
  /\ gi = Len(Suspension)
  /\ pc' = "wheel_read"
  /\ wi' = 0
  /\ UNCHANGED <<front_suspension, rear_suspension, setup, cur, assy, gi, pi, wheelArgs, tire,
                 li, vis, front_assy, main_assy, err, sheetVars, refVars>>

-----------------------------------------------------------------------------
(* _draw_wheels *)

Side == IF wi = 0 THEN "left" ELSE "right"

WheelKeys ==
  << "Tire Diameter", "Rim Diameter", "Tire Width", "Half Track", "Lateral Offset",
     "Longitudinal Offset", "Vertical Offset", "Static Camber", "Static Toe" >>

\* float(wheel[key][side]): the number, or the exception raised
ReadWheelParam(wheel, key, side) ==
  IF ~HasKey(wheel, key) THEN [raise |-> "KeyError", v |-> 0]
  ELSE LET p == Lookup(wheel, key)
       IN IF p.k # "dict" THEN [raise |-> "TypeError", v |-> 0]
          ELSE IF ~HasKey(p.members, side) THEN [raise |-> "KeyError", v |-> 0]
          ELSE LET c == Lookup(p.members, side)
               IN IF c.t \in {"none", "date"} THEN [raise |-> "TypeError", v |-> 0]
                  ELSE IF TryFloat(c).t = "none" THEN [raise |-> "ValueError", v |-> 0]
                  ELSE [raise |-> "", v |-> TryFloat(c).n]

NoArgs == [k \in 1..9 |-> 0]
NoTire == [outer |-> 0, bore |-> 0, height |-> 0, centered |-> FALSE, ops |-> <<>>]

\* lines 186-196: the nine reads of one side, in order; the first that fails raises.
WheelRead ==
  /\ pc = "wheel_read"
  /\ wi < 2
  /\ LET wheel == GetGroup(Suspension, "Wheels")
         reads == [k \in 1..9 |-> ReadWheelParam(wheel, WheelKeys[k], Side)]
         bad == {k \in 1..9 : reads[k].raise # ""}
     IN IF bad # {}
        THEN /\ err' = reads[CHOOSE k \in bad : \A j \in bad : k <= j].raise
             /\ pc' = "error"
             /\ UNCHANGED wheelArgs
        ELSE /\ wheelArgs' = [k \in 1..9 |-> reads[k].v]
             /\ pc' = "wheel_build"
             /\ UNCHANGED err
  /\ UNCHANGED <<front_suspension, rear_suspension, setup, cur, assy, gi, pi, wi, tire, li,
                 vis, front_assy, main_assy, sheetVars, refVars>>

tire_dia == wheelArgs[1]
rim_dia == wheelArgs[2]
width == wheelArgs[3]
half_track == wheelArgs[4]
lat_off == wheelArgs[5]
lon_off == wheelArgs[6]
vert_off == wheelArgs[7]
camber == wheelArgs[8]
toe == wheelArgs[9]

Rotate(axis, angle) == [op |-> "rotate", axis |-> axis, angle |-> angle, by |-> <<0, 0, 0>>]
Translate(by) == [op |-> "translate", axis |-> <<0, 0, 0>>, angle |-> 0, by |-> by]

Half(x) == x \div 2

\* cq.Workplane("XY").circle(outer).circle(bore).extrude(distance, both=True):
\* the ring between the two circles, extruded by distance to either side.
HollowCylinder(outer, bore, distance) ==
  [outer |-> outer, bore |-> bore, height |-> 2 * distance, centered |-> TRUE, ops |-> <<>>]

\* lines 204-209
WheelBuild ==
  /\ pc = "wheel_build"
  /\ tire' = HollowCylinder(Half(tire_dia), Half(rim_dia), Half(width))
  /\ pc' = "wheel_axis"
  /\ UNCHANGED <<front_suspension, rear_suspension, setup, cur, assy, gi, pi, wi, wheelArgs,
                 li, vis, front_assy, main_assy, err, sheetVars, refVars>>

\* line 212: tire.rotate((0, 0, 0), (1, 0, 0), -90)
WheelAlignAxis ==
  /\ pc = "wheel_axis"
  /\ tire' = [tire EXCEPT !.ops = Append(@, Rotate(<<1, 0, 0>>, -90))]
  /\ pc' = "wheel_camber"
  /\ UNCHANGED <<front_suspension, rear_suspension, setup, cur, assy, gi, pi, wi, wheelArgs,
                 li, vis, front_assy, main_assy, err, sheetVars, refVars>>

CamberRotationIsToe == Rotate(<<0, 0, 1>>, toe)

\* (1, 0, 0), camber
CamberRotation == Rotate(<<1, 0, 0>>, camber)

\* line 215: tire.rotate((0, 0, 0), (1, 0, 0), camber)
WheelCamber ==
  /\ pc = "wheel_camber"
  /\ tire' = [tire EXCEPT !.ops = Append(@, CamberRotation)]
  /\ pc' = "wheel_toe"
  /\ UNCHANGED <<front_suspension, rear_suspension, setup, cur, assy, gi, pi, wi, wheelArgs,
                 li, vis, front_assy, main_assy, err, sheetVars, refVars>>

\* line 216: tire.rotate((0, 0, 0), (0, 0, 1), toe)
WheelToe ==
  /\ pc = "wheel_toe"
  /\ tire' = [tire EXCEPT !.ops = Append(@, Rotate(<<0, 0, 1>>, toe))]
  /\ pc' = "wheel_translate"
  /\ UNCHANGED <<front_suspension, rear_suspension, setup, cur, assy, gi, pi, wi, wheelArgs,
                 li, vis, front_assy, main_assy, err, sheetVars, refVars>>

\* sign = 1.0 if side == "left" else -1.0
Sign(side) == IF side = "left" THEN 1 ELSE -1

\* lines 199-201, 219: (x_pos, y_pos, z_pos + tire_dia / 2.0)
WheelCenter(side) ==
  <<lon_off, Sign(side) * (half_track + lat_off), vert_off + Half(tire_dia)>>

\* line 219
WheelTranslate ==
  /\ pc = "wheel_translate"
  /\ tire' = [tire EXCEPT !.ops = Append(@, Translate(WheelCenter(Side)))]
  /\ pc' = "wheel_add"
  /\ UNCHANGED <<front_suspension, rear_suspension, setup, cur, assy, gi, pi, wi, wheelArgs,
                 li, vis, front_assy, main_assy, err, sheetVars, refVars>>

\* line 221: assembly.add(tire, name=f"Wheel_{side}", color=cq.Color(0, 0, 0))
WheelAdd ==
  /\ pc = "wheel_add"
  /\ assy' = Append(assy, [name |-> "Wheel_" \o Side, kind |-> "tire", solid |-> tire,
                           loc |-> <<0, 0, 0>>, color |-> Black])
  /\ wi' = wi + 1
  /\ pc' = "wheel_read"
  /\ UNCHANGED <<front_suspension, rear_suspension, setup, cur, gi, pi, wheelArgs, tire,
                 li, vis, front_assy, main_assy, err, sheetVars, refVars>>

\* `return assembly` from _draw_wheels and `return assy` from _draw_suspension;
\* draw goes on to _draw_wishbones.
WheelsDone ==
  /\ pc = "wheel_read"
  /\ wi = 2
  /\ pc' = "links"
  /\ li' = 0
  /\ vis' = <<>>
  /\ UNCHANGED <<front_suspension, rear_suspension, setup, cur, assy, gi, pi, wi, wheelArgs,
                 tire, front_assy, main_assy, err, sheetVars, refVars>>

-----------------------------------------------------------------------------
(* _cylinder_between, _draw_wishbones *)

\* The catalog `links`, in iteration order.
Links ==
  << [arm |-> "UpperArm", a |-> "CHAS_UppFor", b |-> "UPRI_UppPnt"],
     [arm |-> "UpperArm", a |-> "CHAS_UppAft", b |-> "UPRI_UppPnt"],
     [arm |-> "LowerArm", a |-> "CHAS_LowFor", b |-> "UPRI_LowPnt"],
     [arm |-> "LowerArm", a |-> "CHAS_LowAft", b |-> "UPRI_LowPnt"] >>

\* `for side in ("L", "R")` around the catalog: link number i of 0..7
LinkSide(i) == IF i \div Len(Links) = 0 THEN "L" ELSE "R"
LinkOf(i) == Links[(i % Len(Links)) + 1]

NoPt == [ok |-> FALSE, p |-> <<>>]

\* get_pt(key): the list when it is a list of length 3, else None
get_pt(pts, key) ==
  IF HasKey(pts, key) /\ Lookup(pts, key).k = "list" /\ Len(Lookup(pts, key).items) = 3
  THEN [ok |-> TRUE, p |-> Lookup(pts, key).items]
  ELSE NoPt

\* v2 - v1, which is twice dv = (v2 - v1) / 2
Diff(p1, p2) == <<p2[1].n - p1[1].n, p2[2].n - p1[2].n, p2[3].n - p1[3].n>>

NormSq(v) == v[1] * v[1] + v[2] * v[2] + v[3] * v[3]

\* 1e-9, the unit of length of the model
Eps == 1

\* L = dv.Length; L <= 1e-9, with dv half the difference: |v2 - v1| <= 2e-9
TooShort(p1, p2) == NormSq(Diff(p1, p2)) <= (2 * Eps) * (2 * Eps)

\* radius=2.0 at the call in _draw_wishbones
LinkRadius == 2

\* lines 113-128: the cylinder of half-length L around the origin, turned onto
\* the direction of dv and moved to the midpoint.  z.cross(dirv) has length
\* <= 1e-9 only when dv is along z (coordinates stay below 1e9 units).
\* mid2 is twice the midpoint (v1 + v2) * 0.5.
LinkSolid(p1, p2, radius) ==
  LET d == Diff(p1, p2)
  IN [radius |-> radius,
      along |-> d,
      turn |-> IF d[1] = 0 /\ d[2] = 0
               THEN (IF d[3] < 0 THEN "flip180" ELSE "none")
               ELSE "axis_angle",
      mid2 |-> <<p1[1].n + p2[1].n, p1[2].n + p2[2].n, p1[3].n + p2[3].n>>]

NoSolid == [radius |-> 0, along |-> <<0, 0, 0>>, turn |-> "none", mid2 |-> <<0, 0, 0>>]

\* _cylinder_between(p1, p2, radius): cq.Vector(*p) raises TypeError on an
\* element that is no number; None is returned for a degenerate link.
_cylinder_between(p1, p2, radius) ==
  IF \E k \in 1..3 : ~IsIntOrFloat(p1[k]) \/ ~IsIntOrFloat(p2[k])
    THEN [raise |-> TRUE, none |-> TRUE, body |-> NoSolid]
  ELSE IF TooShort(p1, p2)
    THEN [raise |-> FALSE, none |-> TRUE, body |-> NoSolid]
  ELSE [raise |-> FALSE, none |-> FALSE, body |-> LinkSolid(p1, p2, radius)]

LinkName(i) ==
  LinkOf(i).arm \o "_" \o LinkOf(i).a \o "_to_" \o LinkOf(i).b \o "_" \o LinkSide(i)

\* One iteration of the innermost loop of _draw_wishbones (lines 158-172).
LinkStep ==
  /\ pc = "links"
  /\ li < 2 * Len(Links)
  /\ LET pts == GetGroup(Suspension, "Double A-Arm")
         a == get_pt(pts, LinkOf(li).a \o "_" \o LinkSide(li))
         b == get_pt(pts, LinkOf(li).b \o "_" \o LinkSide(li))
         r == _cylinder_between(a.p, b.p, LinkRadius)
     IN IF ~a.ok \/ ~b.ok
        THEN /\ li' = li + 1
             /\ UNCHANGED <<vis, pc, err>>
        ELSE IF r.raise
        THEN /\ pc' = "error"
             /\ err' = "TypeError"
             /\ UNCHANGED <<vis, li>>
        ELSE /\ vis' = IF r.none THEN vis
                       ELSE Append(vis, [name |-> LinkName(li), kind |-> "link",
                                         solid |-> r.body, loc |-> <<0, 0, 0>>,
                                         color |-> Grey])
             /\ li' = li + 1
             /\ UNCHANGED <<pc, err>>
  /\ UNCHANGED <<front_suspension, rear_suspension, setup, cur, assy, gi, pi, wi, wheelArgs,
                 tire, front_assy, main_assy, sheetVars, refVars>>

\* lines 174-175: assembly.add(vis, name="Wishbones_VIS"); return assembly
WishbonesAttach ==
  /\ pc = "links"
  /\ li = 2 * Len(Links)
  /\ assy' = Append(assy, [name |-> "Wishbones_VIS", kind |-> "group", children |-> vis,
                           loc |-> <<0, 0, 0>>])
  /\ pc' = "drawn"
  /\ UNCHANGED <<front_suspension, rear_suspension, setup, cur, gi, pi, wi, wheelArgs,
                 tire, li, vis, front_assy, main_assy, err, sheetVars, refVars>>

-----------------------------------------------------------------------------
(* draw *)

\* lines 230-233: the front assembly is finished, the rear one is started
DrawRear ==
  /\ pc = "drawn"
  /\ cur = "front"
  /\ front_assy' = assy
  /\ cur' = "rear"
  /\ assy' = <<>>
  /\ gi' = 0
  /\ pi' = 0
  /\ pc' = "draw_points"
  /\ UNCHANGED <<front_suspension, rear_suspension, setup, wi, wheelArgs, tire, li, vis,
                 main_assy, err, sheetVars, refVars>>

NoKey == [has_key |-> FALSE, val |-> NoneCell]
Key(v) == [has_key |-> TRUE, val |-> v]

\* ref_dist = setup.get("Reference distance", 0)
ref_dist(record) == IF record.has_key THEN record.val ELSE Num(0)

\* lines 236-247: -ref_dist raises TypeError when ref_dist is None
Compose ==
  /\ pc = "drawn"
  /\ cur = "rear"
  /\ IF ref_dist(setup).t = "none"
     THEN /\ pc' = "error"
          /\ err' = "TypeError"
          /\ UNCHANGED main_assy
     ELSE /\ main_assy' =
               << [name |-> "Front Suspension", kind |-> "group", children |-> front_assy,
                   loc |-> <<0, 0, 0>>],
                  [name |-> "Rear Suspension", kind |-> "group", children |-> assy,
                   loc |-> <<0 - ref_dist(setup).n, 0, 0>>] >>
          /\ pc' = "done"
          /\ UNCHANGED err
  /\ UNCHANGED <<front_suspension, rear_suspension, setup, cur, assy, gi, pi, wi, wheelArgs,
                 tire, li, vis, front_assy, sheetVars, refVars>>

-----------------------------------------------------------------------------
(* The schemas draw is run on. *)

MaxEntries == 2
MaxAngle == 1
MaxDelta == 3

BothSides(l, r) == JObject(<<Member("left", l), Member("right", r)>>)

\* A complete wheels block.
Wheels(td, cbL, cbR, toeL, lat, vert) ==
  << Member("Tire Diameter", BothSides(Num(td), Num(td))),
     Member("Rim Diameter", BothSides(Num(2), Str("2"))),
     Member("Tire Width", BothSides(Num(2), Num(2))),
     Member("Half Track", BothSides(Num(600), Num(610))),
     Member("Lateral Offset", BothSides(Num(lat), Num(0))),
     Member("Longitudinal Offset", BothSides(Num(0), Num(3))),
     Member("Vertical Offset", BothSides(Num(vert), Num(vert))),
     Member("Static Camber", BothSides(Num(cbL), Num(cbR))),
     Member("Static Toe", BothSides(Num(toeL), Num(0 - toeL))) >>

BaseWheels == Wheels(4, -1, 1, 0, 0, 0)

ValidWheels ==
  {Wheels(td, cbL, cbR, toeL, lat, vert) :
     td \in {4, 6}, cbL \in (0 - MaxAngle)..MaxAngle, cbR \in {0, MaxAngle},
     toeL \in 0..MaxAngle, lat \in {0, 5}, vert \in {0, 1}}

\* Wheels blocks _draw_wheels raises on.
BrokenWheels ==
  { <<>>,
    SubSeq(BaseWheels, 1, 8),
    [BaseWheels EXCEPT ![4] = Member("Half Track", BothSides(Num(600), NoneCell))],
    [BaseWheels EXCEPT ![8] = Member("Static Camber", BothSides(Str("abc"), Num(0)))],
    [BaseWheels EXCEPT ![2] = Member("Rim Diameter", JObject(<<Member("left", Num(2))>>))],
    [BaseWheels EXCEPT ![3] = Member("Tire Width", JList(<<Num(2), Num(2)>>))] }

WheelsGroup(w) == Member("Wheels", JObject(w))

RearBase == <<WheelsGroup(BaseWheels)>>

PointGroupNames == {"UPRI", "Double A-Arm", "Rocker"}
PointNames == {"Ball", "CHAS_UppFor_L", "ROCK_Piv"}
PointValues ==
  { JList(<<Num(1), Num(2), Num(3)>>),
    JList(<<Num(-4), Bool(TRUE), Num(0)>>),
    JList(<<Num(4), Num(5)>>),
    JList(<<Num(1), Num(2), Num(3), Num(4)>>),
    JList(<<Num(1), NoneCell, Str("3")>>),
    BothSides(Num(1), Num(2)),
    JScalar(Num(5)) }

PointEntries ==
  {es \in SeqsUpTo({Member(n, v) : n \in PointNames, v \in PointValues}, MaxEntries) :
     \A i, j \in 1..Len(es) : i # j => es[i].name # es[j].name}

PointSchemas ==
  {<<Member("Note", JScalar(Str("EV2024"))), Member(g, JObject(es)), WheelsGroup(BaseWheels)>> :
     g \in PointGroupNames, es \in PointEntries}

WheelSchemas == {<<WheelsGroup(w)>> : w \in ValidWheels \cup BrokenWheels} \cup {<<>>}

Pt(x, y, z) == JList(<<Num(x), Num(y), Num(z)>>)

\* An optional member: none when the value is absent.
Opt(name, v) == IF v = JScalar(NoneCell) THEN <<>> ELSE <<Member(name, v)>>
Absent == JScalar(NoneCell)

UppForChoices ==
  {Absent, Pt(0, 0, 0), Pt(1, 1, 0), Pt(0, 0, -3), Pt(0, 0, 5),
   JList(<<Num(0), Num(0)>>), JList(<<Num(0), NoneCell, Num(9)>>)}
    \cup {Pt(d, 0, 0) : d \in 1..MaxDelta}
UppAftChoices == {Absent, Pt(0, 0, 0), Pt(2, 0, 0), Pt(0, 1, 2)}
UppPntChoices == {Absent, Pt(0, 0, 0), JList(<<Num(0), Num(0)>>)}

OtherArmPoints ==
  { <<>>,
    << Member("CHAS_LowFor_L", Pt(10, 0, 0)), Member("CHAS_LowAft_L", Pt(0, 10, 0)),
       Member("UPRI_LowPnt_L", Pt(0, 0, 0)),
       Member("CHAS_UppFor_R", Pt(0, 0, 0)), Member("CHAS_UppAft_R", Pt(0, 0, -7)),
       Member("UPRI_UppPnt_R", Pt(0, 0, 0)),
       Member("CHAS_LowFor_R", Pt(1, 0, 1)), Member("UPRI_LowPnt_R", Pt(0, 0, 2)) >> }

ArmSchemas ==
  {<<Member("Double A-Arm",
            JObject(Opt("CHAS_UppFor_L", f) \o Opt("CHAS_UppAft_L", a)
                    \o Opt("UPRI_UppPnt_L", u) \o rest)),
     WheelsGroup(BaseWheels)>> :
     f \in UppForChoices, a \in UppAftChoices, u \in UppPntChoices, rest \in OtherArmPoints}

SetupRecords == {NoKey, Key(NoneCell), Key(Num(0)), Key(Num(1600)), Key(Num(-5))}

DrawInputs ==
  {[front |-> f, rear |-> RearBase, setup |-> Key(Num(1600))] :
     f \in PointSchemas \cup WheelSchemas \cup ArmSchemas}
  \cup {[front |-> RearBase, rear |-> r, setup |-> st] :
          r \in {RearBase, <<>>}, st \in SetupRecords}

DrawIdle ==
  /\ front_suspension = <<>>
  /\ rear_suspension = <<>>
  /\ setup = NoKey
  /\ cur = "front"
  /\ assy = <<>>
  /\ gi = 0
  /\ pi = 0
  /\ wi = 0
  /\ wheelArgs = NoArgs
  /\ tire = NoTire
  /\ li = 0
  /\ vis = <<>>
  /\ front_assy = <<>>
  /\ main_assy = <<>>

-----------------------------------------------------------------------------
vars == <<sheetVars, refVars, drawVars, pc, err>>

InitSheet ==
  /\ SheetStart
  /\ RefIdle
  /\ DrawIdle
  /\ pc = "find"
  /\ err = ""

NextSheet ==
  \/ FindBlocksRow
  \/ FindBlocksReturn
  \/ ParseWheelsBlock
  \/ PointsBlockHeader
  \/ PointsBlockRow
  \/ PointsBlockReturn
  \/ IgnoreBlock
  \/ ParseSheetReturn

SpecSheet == InitSheet /\ [][NextSheet]_vars

InitRef ==
  /\ SheetIdle
  /\ DrawIdle
  /\ workbook \in Workbooks
  /\ refPass = "setup"
  /\ refSi = 0
  /\ refRi = 0
  /\ refResult = NoneCell
  /\ setupFile = NoFile
  /\ pc = "scan"
  /\ err = ""

NextRef ==
  \/ RefScanRow
  \/ RefNextSheet
  \/ RefSearchAllSheets
  \/ RefNotFound
  \/ SaveReferenceDistance

SpecRef == InitRef /\ [][NextRef]_vars

\* carAssembly.__init__ has loaded the three files; draw(self.setup) starts.
InitDraw ==
  /\ SheetIdle
  /\ RefIdle
  /\ \E in \in DrawInputs :
       /\ front_suspension = in.front
       /\ rear_suspension = in.rear
       /\ setup = in.setup
  /\ cur = "front"
  /\ assy = <<>>
  /\ gi = 0
  /\ pi = 0
  /\ wi = 0
  /\ wheelArgs = NoArgs
  /\ tire = NoTire
  /\ li = 0
  /\ vis = <<>>
  /\ front_assy = <<>>
  /\ main_assy = <<>>
  /\ pc = "draw_points"
  /\ err = ""

NextDraw ==
  \/ DrawEntry
  \/ DrawNextGroup
  \/ DrawPointsDone
  \/ WheelRead
  \/ WheelBuild
  \/ WheelAlignAxis
  \/ WheelCamber
  \/ WheelToe
  \/ WheelTranslate
  \/ WheelAdd
  \/ WheelsDone
  \/ LinkStep
  \/ WishbonesAttach
  \/ DrawRear
  \/ Compose

SpecDraw == InitDraw /\ [][NextDraw]_vars

-----------------------------------------------------------------------------
(* Properties of sheet extraction. *)

\* A column-0 value that is a non-empty, non-numeric label.
IsLabelCell(c) == (c.t = "str" /\ c.s # "") \/ c.t = "date"

IsLabelRow(row) == Len(row) > 0 /\ IsLabelCell(row[1])

\* The 0-based indices of the label rows of grid g from row i on, top to bottom.
RECURSIVE LabelRowsFrom(_, _)
LabelRowsFrom(g, i) ==
  IF i >= Len(g) THEN <<>>
  ELSE (IF IsLabelRow(At(g, i)) THEN <<i>> ELSE <<>>) \o LabelRowsFrom(g, i + 1)

C2_Scenario2 ==
  (rows = Scenario2Grid /\ pc = "done") =>
    parsed = ("Susp" :> [kind |-> "points",
                         d |-> ("CHAS_UppFor_L" :> <<Num(100), Num(200), Num(50)>>
                                @@ "CHAS_UppFor_R" :> <<Num(100), Num(-200), Num(50)>>)])

\* What extraction returns for the scenario-2 block: the left span [2, 3) holds
\* only X, the right span [3, 8) finds Y and Z in the left triple.
Scenario2Extracted ==
  (rows = Scenario2Grid /\ pc = "done") =>
    parsed = ("Susp" :> [kind |-> "points",
                         d |-> ("CHAS_UppFor_L" :> <<Num(100), Num(0), Num(0)>>
                                @@ "CHAS_UppFor_R" :> <<Num(100), Num(200), Num(50)>>)])

TireDiaParams == "TireDia" :> [left |-> Num(18), right |-> Num(16)]

\* C3 as stated: extracting the scenario-1 grid yields the wheels parameter map
\* {"TireDia": {"left": 18, "right": 16}}.
C3_Scenario1 ==
  (rows = Scenario1Grid /\ pc = "done") =>
    \E b \in DOMAIN parsed : parsed[b].kind = "wheels" /\ parsed[b].d = TireDiaParams

\* C3 amended: the scenario-1 grid yields {"Wheels Block": {}}, its second row
\* being the label row of a block "Wheels" that has no "Point Name" header; with
\* an empty column-0 cell in the second row the wheels parameter map is
\* {"TireDia": {"left": 18, "right": 16}}.
C3_Scenario1Amended ==
  /\ (rows = Scenario1Grid /\ pc = "done") =>
       /\ parsed = ("Wheels Block" :> [kind |-> "wheels", d |-> EmptyDict])
       /\ Len(blocks) = 2 /\ blocks[2].name = "Wheels"
  /\ (rows = <<Scenario1Header, Scenario1RowNoLabel>> /\ pc = "done") =>
       parsed = ("Wheels Block" :> [kind |-> "wheels", d |-> TireDiaParams])

C3_Witness ==
  /\ rows = <<Scenario1Header, Scenario1RowNoLabel>>
  /\ pc = "done"
  /\ "Wheels Block" \in DOMAIN parsed

\* A vector of exactly three numbers.
IsVec3(v) == Len(v) = 3 /\ \A k \in 1..3 : v[k].t = "num"

\* A cell value float() does not convert.
Unconvertible(c) == c.t \in {"none", "date"} \/ (c.t = "str" /\ c.s \notin NumericTexts)

InRow(row, i) == i.ok /\ i.i < Len(row)

LeftCols == <<cols.lx, cols.ly, cols.lz>>
RightCols == <<cols.rx, cols.ry, cols.rz>>

\* C4 as stated: for a kept row both stored vectors hold three numbers, and a
\* coordinate cell that is outside the row or not convertible is stored as 0.0,
\* on the left and on the right side.
C4_MissingIsZero ==
  (pc = "points" /\ loc.kept) =>
    LET L == points[loc.name \o "_L"]
        R == points[loc.name \o "_R"]
    IN /\ IsVec3(L) /\ IsVec3(R)
       /\ \A k \in 1..3 :
            /\ (LeftCols[k].ok /\ (~InRow(loc.row, LeftCols[k])
                                   \/ Unconvertible(At(loc.row, LeftCols[k].i))))
                 => L[k] = Num(0)
            /\ (RightCols[k].ok /\ (~InRow(loc.row, RightCols[k])
                                    \/ Unconvertible(At(loc.row, RightCols[k].i))))
                 => R[k] = Num(0)

\* C4 amended: every stored vector holds exactly three numbers, never null.  For
\* a kept row, a left coordinate whose column is unresolved, outside the row or
\* holds an unconvertible cell is stored as 0.0; a right coordinate whose cell is
\* inside the row and unconvertible is stored as 0.0; a right coordinate whose
\* column is unresolved or outside the row takes the stored left value.
C4_StoredVectorsNumeric ==
  /\ \A key \in DOMAIN points : IsVec3(points[key])
  /\ \A b \in DOMAIN parsed :
       parsed[b].kind = "points" => \A key \in DOMAIN parsed[b].d : IsVec3(parsed[b].d[key])
  /\ (pc = "points" /\ loc.kept) =>
       LET L == points[loc.name \o "_L"]
           R == points[loc.name \o "_R"]
       IN \A k \in 1..3 :
            /\ (~InRow(loc.row, LeftCols[k]) \/ Unconvertible(At(loc.row, LeftCols[k].i)))
                 => L[k] = Num(0)
            /\ (InRow(loc.row, RightCols[k]) /\ Unconvertible(At(loc.row, RightCols[k].i)))
                 => R[k] = Num(0)
            /\ ~InRow(loc.row, RightCols[k]) => R[k] = L[k]

\* C4 witness: a kept row with an unconvertible left cell, an unconvertible right
\* cell and a right column outside the row next to a non-zero left value.
C4_Witness ==
  /\ pc = "points" /\ loc.kept
  /\ \E k \in 1..3 : InRow(loc.row, LeftCols[k]) /\ Unconvertible(At(loc.row, LeftCols[k].i))
  /\ \E k \in 1..3 : InRow(loc.row, RightCols[k]) /\ Unconvertible(At(loc.row, RightCols[k].i))
  /\ \E k \in 1..3 : RightCols[k].ok /\ ~InRow(loc.row, RightCols[k])
                     /\ points[loc.name \o "_R"][k] # Num(0)

\* A points block whose header row has no "Right" label and whose second row
\* is no X/Y/Z subheader.
NoRightNoXyz(b) ==
  /\ ~InList("Right", HeaderOf(b.rows[1]))
  /\ (Len(b.rows) < 2
      \/ ~({"X", "Y", "Z"} \subseteq {HeaderOf(b.rows[2])[i] : i \in 1..Len(b.rows[2])}))

EndsWith(s, suffix) ==
  Len(s) >= Len(suffix) /\ SubSeq(s, Len(s) - Len(suffix) + 1, Len(s)) = suffix

\* Every <name>_R entry of a points dictionary equals its <name>_L entry.
RightEqualsLeft(d) ==
  \A key \in DOMAIN d :
    EndsWith(key, "_R") =>
      LET paired == SubSeq(key, 1, Len(key) - 2) \o "_L"
      IN paired \in DOMAIN d /\ d[key] = d[paired]

\* C5: in a points block whose header row has no "Right" label and whose second
\* row is no X/Y/Z subheader, every emitted <name>_R vector equals its paired
\* <name>_L vector, while the rows are read and in the block returned.
C5_RightMirrorsLeft ==
  /\ (pc = "points" /\ NoRightNoXyz(CurBlock)) => RightEqualsLeft(points)
  /\ \A k \in 1..bi :
       (/\ NoRightNoXyz(blocks[k])
        /\ IsPointsBlock(blocks[k])
        /\ \A j \in (k + 1)..bi : blocks[j].name # blocks[k].name)
       => RightEqualsLeft(parsed[blocks[k].name].d)

\* C5 witness: such a block has kept a row whose left vector is not all zero.
C5_Witness ==
  /\ pc = "points" /\ loc.kept
  /\ NoRightNoXyz(CurBlock)
  /\ points[loc.name \o "_L"] # <<Num(0), Num(0), Num(0)>>
  /\ points[loc.name \o "_R"] = points[loc.name \o "_L"]

-----------------------------------------------------------------------------
(* Properties of reference-distance extraction. *)

\* What a row decides when its first label cell alone decides: the next cell
\* cast to float, None when the cast fails or there is no next cell.
FirstLabelOfRow(row) ==
  IF \E i \in 0..(Len(row) - 1) : IsRefLabel(At(row, i))
  THEN LET i == CHOOSE i \in 0..(Len(row) - 1) :
                  IsRefLabel(At(row, i)) /\ \A j \in 0..(i - 1) : ~IsRefLabel(At(row, j))
       IN [found |-> TRUE,
           val |-> IF i + 1 < Len(row) THEN TryFloat(At(row, i + 1)) ELSE NoneCell]
  ELSE [found |-> FALSE, val |-> NoneCell]

RECURSIVE FirstLabelOfRows(_, _)
FirstLabelOfRows(table, j) ==
  IF j > Len(table) THEN [found |-> FALSE, val |-> NoneCell]
  ELSE IF FirstLabelOfRow(table[j]).found THEN FirstLabelOfRow(table[j])
  ELSE FirstLabelOfRows(table, j + 1)

RECURSIVE FirstLabelOfSheets(_, _, _)
FirstLabelOfSheets(wb, list, k) ==
  IF k > Len(list) THEN [found |-> FALSE, val |-> NoneCell]
  ELSE IF FirstLabelOfRows(wb[list[k]].rows, 1).found
    THEN FirstLabelOfRows(wb[list[k]].rows, 1)
  ELSE FirstLabelOfSheets(wb, list, k + 1)

FirstLabelResult(wb) ==
  IF FirstLabelOfSheets(wb, SetupSheets(wb), 1).found
    THEN FirstLabelOfSheets(wb, SetupSheets(wb), 1).val
  ELSE FirstLabelOfSheets(wb, AllSheets(wb), 1).val

\* C6: the result is fixed by the first matching cell alone (setup sheets
\* first, all sheets only if no setup sheet has a match): the next cell cast to
\* float, None when the cast fails or the cell has no next cell; with no
\* matching cell the result is None.
C6_FirstMatchDecides ==
  pc \in {"returned", "done"} => refResult = FirstLabelResult(workbook)

\* What the scan returns: a label cell in the last column of its row is passed
\* over, and the first label cell that has a next cell decides.
RECURSIVE FirstUsableOfRows(_, _)
FirstUsableOfRows(table, j) ==
  IF j > Len(table) THEN [found |-> FALSE, val |-> NoneCell]
  ELSE LET usable == {i \in 0..(Len(table[j]) - 2) : IsRefLabel(At(table[j], i))}
       IN IF usable # {}
          THEN [found |-> TRUE,
                val |-> TryFloat(At(table[j], (CHOOSE i \in usable : \A k \in usable : i <= k) + 1))]
          ELSE FirstUsableOfRows(table, j + 1)

RECURSIVE FirstUsableOfSheets(_, _, _)
FirstUsableOfSheets(wb, list, k) ==
  IF k > Len(list) THEN [found |-> FALSE, val |-> NoneCell]
  ELSE IF FirstUsableOfRows(wb[list[k]].rows, 1).found
    THEN FirstUsableOfRows(wb[list[k]].rows, 1)
  ELSE FirstUsableOfSheets(wb, list, k + 1)

RefFirstLabelWithNextCellDecides ==
  pc \in {"returned", "done"} =>
    refResult = IF FirstUsableOfSheets(workbook, SetupSheets(workbook), 1).found
                THEN FirstUsableOfSheets(workbook, SetupSheets(workbook), 1).val
                ELSE FirstUsableOfSheets(workbook, AllSheets(workbook), 1).val

\* A workbook without any label cell is saved as {"Reference distance": null}.
RefNoLabelSavesNull ==
  (pc = "done"
   /\ \A i \in 1..Len(workbook) : \A j \in 1..Len(workbook[i].rows) :
        ~FirstLabelOfRow(workbook[i].rows[j]).found)
  => setupFile = [written |-> TRUE, has_key |-> TRUE, val |-> NoneCell]

-----------------------------------------------------------------------------
(* Properties of the scene assembly. *)

LastNodeIs(nodes, name) == Len(nodes) > 0 /\ nodes[Len(nodes)].name = name

\* draw has drawn both suspensions and is at, or past, the composition.
AtComposition == cur = "rear" /\ LastNodeIs(assy, "Wishbones_VIS")

ReferenceMissing == ~setup.has_key \/ setup.val.t = "none"

\* C7: the front subgraph is placed at the origin and the rear one at
\* (-referenceDistance, 0, 0); with the reference distance missing from the
\* setup record (no key, or null) the build does not fail and the rear subgraph
\* is placed at (0, 0, 0).
C7_RearPlacedAtReferenceDistance ==
  (AtComposition /\ pc \in {"done", "error"}) =>
    /\ pc = "done"
    /\ main_assy[1].name = "Front Suspension" /\ main_assy[1].loc = <<0, 0, 0>>
    /\ main_assy[2].name = "Rear Suspension"
    /\ main_assy[2].loc = <<(IF ReferenceMissing THEN 0 ELSE 0 - setup.val.n), 0, 0>>

\* The placement draw performs when the setup record holds a number or no key.
RearPlacedUnlessNull ==
  (AtComposition /\ pc \in {"done", "error"}) =>
    IF setup.has_key /\ setup.val.t = "none"
    THEN pc = "error" /\ err = "TypeError"
    ELSE /\ pc = "done"
         /\ main_assy[1].loc = <<0, 0, 0>>
         /\ main_assy[2].loc = <<(IF setup.has_key THEN 0 - setup.val.n ELSE 0), 0, 0>>

\* The number the wheels block of schema s gives for key and side.
WheelParam(s, key, side) ==
  TryFloat(Lookup(Lookup(GetGroup(s, "Wheels"), key).members, side)).n

\* The wheel solid of a side as the pipeline is to produce it.
ExpectedTire(s, side) ==
  [outer |-> WheelParam(s, "Tire Diameter", side) \div 2,
   bore |-> WheelParam(s, "Rim Diameter", side) \div 2,
   height |-> WheelParam(s, "Tire Width", side),
   centered |-> TRUE,
   ops |-> << Rotate(<<1, 0, 0>>, -90),
              Rotate(<<1, 0, 0>>, WheelParam(s, "Static Camber", side)),
              Rotate(<<0, 0, 1>>, WheelParam(s, "Static Toe", side)),
              Translate(<< WheelParam(s, "Longitudinal Offset", side),
                           (IF side = "left" THEN 1 ELSE -1)
                             * (WheelParam(s, "Half Track", side)
                                + WheelParam(s, "Lateral Offset", side)),
                           WheelParam(s, "Vertical Offset", side)
                             + WheelParam(s, "Tire Diameter", side) \div 2 >>) >>]

\* The number of pipeline steps applied to the tire at each position.
StepsDone ==
  CASE pc = "wheel_axis" -> 0
    [] pc = "wheel_camber" -> 1
    [] pc = "wheel_toe" -> 2
    [] pc = "wheel_translate" -> 3
    [] OTHER -> 4

TireNodes(nodes) == SelectSeq(nodes, LAMBDA n : n.kind = "tire")

TiresAsExpected(nodes, s) ==
  \A k \in 1..Len(TireNodes(nodes)) :
    LET side == IF k = 1 THEN "left" ELSE "right"
    IN /\ k <= 2
       /\ TireNodes(nodes)[k].name = "Wheel_" \o side
       /\ TireNodes(nodes)[k].solid = ExpectedTire(s, side)

\* C8: for each side the wheel solid is the hollow cylinder (outer radius
\* tireDiameter/2, bore radius rimDiameter/2, total height tireWidth, centered)
\* to which exactly these steps are applied, in this order: rotate -90 about X,
\* rotate by camber about X, rotate by toe about Z, translate to the wheel
\* center; while it is built the steps applied are a prefix of that sequence.
C8_WheelPipelineOrder ==
  /\ pc \in {"wheel_axis", "wheel_camber", "wheel_toe", "wheel_translate", "wheel_add"} =>
       /\ tire.outer = ExpectedTire(Suspension, Side).outer
       /\ tire.bore = ExpectedTire(Suspension, Side).bore
       /\ tire.height = ExpectedTire(Suspension, Side).height
       /\ tire.centered
       /\ tire.ops = SubSeq(ExpectedTire(Suspension, Side).ops, 1, StepsDone)
  /\ TiresAsExpected(assy, Suspension)
  /\ TiresAsExpected(front_assy, front_suspension)
  /\ pc \in {"links", "drawn", "done"} => Len(TireNodes(assy)) = 2

\* C8 witness: both wheels of the front suspension are added, the left one with
\* non-zero camber and toe and a lateral offset.
C8_Witness ==
  /\ cur = "front" /\ pc = "links"
  /\ Len(TireNodes(assy)) = 2
  /\ WheelParam(front_suspension, "Static Camber", "left") # 0
  /\ WheelParam(front_suspension, "Static Toe", "left") # 0
  /\ WheelParam(front_suspension, "Lateral Offset", "left") # 0
  /\ TireNodes(assy)[2].solid.ops[4].by[2] < 0

\* A catalog endpoint that is present: a list of three numbers under its key.
PresentPoint(pts, key) ==
  /\ HasKey(pts, key)
  /\ Lookup(pts, key).k = "list"
  /\ Len(Lookup(pts, key).items) = 3
  /\ \A k \in 1..3 : Lookup(pts, key).items[k].t = "num"

\* The catalog links whose endpoints are both present and whose squared
\* distance exceeds minSq.
FarLinks(s, minSq) ==
  {i \in 0..(2 * Len(Links) - 1) :
     LET pts == GetGroup(s, "Double A-Arm")
         ka == LinkOf(i).a \o "_" \o LinkSide(i)
         kb == LinkOf(i).b \o "_" \o LinkSide(i)
     IN /\ PresentPoint(pts, ka) /\ PresentPoint(pts, kb)
        /\ NormSq(Diff(Lookup(pts, ka).items, Lookup(pts, kb).items)) > minSq}

NodeNames(nodes) == {nodes[k].name : k \in 1..Len(nodes)}

\* C9: the link cylinders added by the wishbone pass are exactly the catalog
\* pairs whose two endpoints are both present and more than 1e-9 apart.
C9_LinksExactlyFarPairs ==
  (pc = "drawn") =>
    /\ NodeNames(vis) = {LinkName(i) : i \in FarLinks(Suspension, Eps * Eps)}
    /\ Len(vis) = Cardinality(FarLinks(Suspension, Eps * Eps))

\* The links the pass adds: the pairs more than 2e-9 apart, the test being made
\* on half the distance.
LinksFartherThanTwoEps ==
  (pc = "drawn") =>
    /\ NodeNames(vis) = {LinkName(i) : i \in FarLinks(Suspension, 4 * Eps * Eps)}
    /\ Len(vis) = Cardinality(FarLinks(Suspension, 4 * Eps * Eps))

\* A list of exactly three numbers.
IsThreeNumbers(val) ==
  val.k = "list" /\ Len(val.items) = 3 /\ \A k \in 1..3 : val.items[k].t \in {"num", "bool"}

\* The first matching rule on the composite name decides the marker's color.
RuleColor(name) ==
  CASE Contains("CHAS", name) -> Red
    [] ~Contains("CHAS", name) /\ Contains("UPRI", name) -> Green
    [] ~Contains("CHAS", name) /\ ~Contains("UPRI", name) /\ Contains("ROCK", name) -> Blue
    [] OTHER -> Yellow

\* The two spheres of an entry, or nothing: name, position, color.
SpheresOfEntry(group, e) ==
  IF IsThreeNumbers(e.val)
  THEN LET at == <<e.val.items[1].n, e.val.items[2].n, e.val.items[3].n>>
           name == group \o "_" \o e.name
       IN << [name |-> name \o "_sphere", loc |-> at, color |-> RuleColor(name)],
             [name |-> name \o "_sketchpoint", loc |-> at, color |-> Blue] >>
  ELSE <<>>

RECURSIVE SpheresOfEntries(_, _, _)
SpheresOfEntries(group, members, n) ==
  IF n = 0 THEN <<>>
  ELSE SpheresOfEntries(group, members, n - 1) \o SpheresOfEntry(group, members[n])

\* The spheres due once the first g groups and the first p entries of the next
\* group are traversed.
RECURSIVE SpheresDue(_, _, _)
SpheresDue(s, g, p) ==
  IF g = 0
    THEN (IF p = 0 THEN <<>> ELSE SpheresOfEntries(s[1].name, s[1].val.members, p))
  ELSE SpheresDue(s, g - 1,
                  IF s[g].val.k = "dict" THEN Len(s[g].val.members) ELSE 0)
       \o (IF p = 0 THEN <<>> ELSE SpheresOfEntries(s[g + 1].name, s[g + 1].val.members, p))

SphereNodes(nodes) ==
  LET sel == SelectSeq(nodes, LAMBDA n : n.kind = "sphere")
  IN [k \in 1..Len(sel) |-> [name |-> sel[k].name, loc |-> sel[k].loc, color |-> sel[k].color]]

-----------------------------------------------------------------------------
(* Totality of sheet extraction. *)

HasPointName(b) == InList("Point Name", HeaderOf(b.rows[1]))

\* C11: sheet extraction never raises an error, whatever the grid (rows of
\* different lengths, blocks without "Point Name", header-only blocks, empty
\* rows, rows without a name, cells of the wrong type), and the schema it
\* returns has entries only for blocks that have a "Point Name" header.
C11_ExtractionTotal ==
  /\ pc # "error"
  /\ pc = "done" =>
       DOMAIN parsed = {blocks[k].name : k \in {j \in 1..Len(blocks) : HasPointName(blocks[j])}}

\* Extraction raises only an IndexError, out of the X/Y/Z search of the left
\* span, when the "Right" label of the header row lies beyond the end of an
\* X/Y/Z subheader row; a grid whose rows have one length never raises.
ExtractionRaisesOnlyPastSubheader ==
  pc = "error" =>
    /\ err = "IndexError"
    /\ LET hdr0 == HeaderOf(CurBlock.rows[1])
           hdr1 == IF Len(CurBlock.rows) > 1 THEN HeaderOf(CurBlock.rows[2]) ELSE <<>>
       IN /\ HasXyz(hdr1)
          /\ InList("Left", hdr0) /\ InList("Right", hdr0)
          /\ IndexOf("Right", hdr0) > IndexOf("Left", hdr0)
          /\ IndexOf("Right", hdr0) > Len(hdr1)

\* Without an error extraction returns, and blocks lacking "Point Name" add
\* no entry.
ReturnedSchemaHasPointBlocksOnly ==
  pc = "done" =>
    DOMAIN parsed = {blocks[k].name : k \in {j \in 1..Len(blocks) : HasPointName(blocks[j])}}

====
